---- MODULE Spec2Model ----
(***************************************************************************)
(* Model of the KernelShark "naps" plugin: naps.c (context, classification *)
(* of sched_switch / sched_waking records at load time, init and deinit),  *)
(* Naps.cpp (draw callback, candidate predicates, call of the interval     *)
(* plot), NapConfig.cpp (configuration singleton and its window).          *)
(***************************************************************************)
EXTENDS Integers, Sequences, FiniteSets, TLC

VARIABLES
    stream,      \* the host's data stream: couplebreak flag, tep-ness, known events
    trace,       \* the records the host has read so far: entry as built, raw record
    entries,     \* the host's entry store, in trace order (kshark_entry)
    ctx,         \* plugin_naps_context of the stream (exists = FALSE: no context)
    handlers,    \* handlers registered with the host for the stream
    font_file,   \* TRUE when font_file and bold_font_path are both non-NULL
    ret,         \* the last lifecycle call and its return value
    cfg,         \* NapConfig singleton
    win,         \* NapConfigWindow controls
    applied,     \* the control values of the most recent Apply, and the last window operation
    last_draw,   \* arguments and output of the last draw callback
    nap_rect,    \* the last call of _make_nap_rect: its arguments, the NapRectangle or the fault
    contrast     \* the last fill colour whose text colour was computed

vars == <<stream, trace, entries, ctx, handlers, font_file, ret, cfg, win, applied, last_draw,
          nap_rect, contrast>>

(***************************************************************************)
(* Bounds of the model.                                                    *)
(***************************************************************************)
MaxRecords == 3
\* Length of the traces of SpecMatch, whose entries are all visible.
MaxMatchRecords == 4

\* Task ids occurring in the modelled traces (5 and 7 as in the specification's scenario).
Pids == {5, 7}

(***************************************************************************)
(* Numbers of the program and of the host.                                 *)
(***************************************************************************)
\* Event ids the host resolves for the stream's events.
SCHED_SWITCH_ID == 1
SCHED_WAKING_ID == 2
OTHER_EVENT_ID == 3
\* Id of couplebreak/sched_waking[target] entries.
COUPLEBREAK_SWT_ID == -3
\* Value of an event id that could not be resolved / that was invalidated.
INVALID_ID == -1
\* Auxiliary field stored when nothing meaningful is known.
NO_FIELD == -1
\* Default of NapConfig::_histo_entries_limit.
DEFAULT_HISTO_LIMIT == 10000

\* Bits of kshark_entry::visible, as a set of set bits.
Masks == {"TEXT_VIEW", "GRAPH_VIEW", "EVENT_VIEW", "PLUGIN_UNTOUCHED"}
KS_GRAPH_VIEW_FILTER_MASK == "GRAPH_VIEW"
KS_EVENT_VIEW_FILTER_MASK == "EVENT_VIEW"
KS_PLUGIN_UNTOUCHED_MASK == "PLUGIN_UNTOUCHED"

KSHARK_CPU_DRAW == "CPU_DRAW"
KSHARK_TASK_DRAW == "TASK_DRAW"
DrawActions == {KSHARK_CPU_DRAW, KSHARK_TASK_DRAW}

(***************************************************************************)
(* Integer widths.  A 64-bit value is kept as its bit pattern, four 16-bit  *)
(* limbs, most significant first; int and int32_t values are integers.     *)
(***************************************************************************)
Min(S) == CHOOSE x \in S : \A y \in S : x <= y

LimbBase == 2^16
LimbSign == 2^15
Limbs == 0 .. (LimbBase - 1)

\* The unsigned long long with value n, for 0 <= n < 2^31.
U64(n) == <<0, 0, n \div LimbBase, n % LimbBase>>

\* (int64_t)n of an int n: sign extension.
I64FromInt(n) ==
    LET ext == IF n < 0 THEN LimbBase - 1 ELSE 0
    IN  <<ext, ext, (n \div LimbBase) % LimbBase, n % LimbBase>>

\* (int32_t)val of an unsigned long long val: the low 32 bits, two's complement.
ToInt32(val) ==
    IF val[3] >= LimbSign
    THEN (val[3] - LimbBase) * LimbBase + val[4]
    ELSE val[3] * LimbBase + val[4]

\* (int64_t)val of an unsigned long long val: the same 64 bits.
ToInt64(val) == val

\* An int64_t is negative when its top bit is set.
I64Negative(f) == f[1] >= LimbSign

(***************************************************************************)
(* The host's stream and records.                                          *)
(***************************************************************************)
\* kshark_find_event_id(stream, "sched/sched_switch").
FindSwitchId(s) == IF s.has_switch THEN SCHED_SWITCH_ID ELSE INVALID_ID

\* kshark_find_event_id(stream, "sched/sched_waking").
FindWakingId(s) == IF s.has_waking THEN SCHED_WAKING_ID ELSE INVALID_ID

\* Visibility masks of the entries the host hands to the plugin: every bit
\* set, or one of the two filter bits cleared.
VisChoices == {Masks, Masks \ {KS_GRAPH_VIEW_FILTER_MASK}, Masks \ {KS_EVENT_VIEW_FILTER_MASK}}

\* The raw tep record of an entry, as far as the plugin reads it: whether the
\* pid field can be read, and its unsigned 64-bit value.
NoRec == [readable |-> FALSE, val |-> U64(0)]

Entry(id, pid, vis) == [event_id |-> id, pid |-> pid, visible |-> vis]

(***************************************************************************)
(* Context (KS_DEFINE_PLUGIN_CONTEXT) and collector.                       *)
(***************************************************************************)
\* No context for the stream (__get_context returns NULL).
NoCtx ==
    [exists |-> FALSE, has_container |-> FALSE, collected_events |-> <<>>,
     sswitch_event_id |-> INVALID_ID, waking_event_id |-> INVALID_ID,
     sched_waking_pid_field |-> FALSE]

\* kshark_data_container_append(container, entry, field); entries are
\* referred to by their index in the host's entry store.
kshark_data_container_append(container, idx, field) ==
    Append(container, [entry |-> idx, field |-> field])

(***************************************************************************)
(* Classification at load time (naps.c).                                   *)
(***************************************************************************)
\* waking_evt_tep_processing storing the entry's own pid when the read fails.
waking_evt_tep_processing_own_pid(c, rec, entry, idx) ==
    LET ret_ok == c.sched_waking_pid_field /\ rec.readable
    IN  IF ret_ok
        THEN [entry |-> [entry EXCEPT !.pid = ToInt32(rec.val),
                                      !.visible = @ \ {KS_PLUGIN_UNTOUCHED_MASK}],
              collected |-> kshark_data_container_append(
                                c.collected_events, idx, ToInt64(rec.val))]
        ELSE [entry |-> entry,
              collected |-> kshark_data_container_append(
                                c.collected_events, idx, I64FromInt(entry.pid))]

\* waking_evt_tep_processing storing the pid the entry had before (the waker).
waking_evt_tep_processing_waker(c, rec, entry, idx) ==
    LET ret_ok == c.sched_waking_pid_field /\ rec.readable
    IN  IF ret_ok
        THEN [entry |-> [entry EXCEPT !.pid = ToInt32(rec.val),
                                      !.visible = @ \ {KS_PLUGIN_UNTOUCHED_MASK}],
              collected |-> kshark_data_container_append(
                                c.collected_events, idx, I64FromInt(entry.pid))]
        ELSE [entry |-> entry,
              collected |-> kshark_data_container_append(
                                c.collected_events, idx, I64FromInt(NO_FIELD))]

\* waking_evt_tep_processing assigning the whole visibility mask instead of
\* clearing one bit of it.
waking_evt_tep_processing_mask(c, rec, entry, idx) ==
    LET ret_ok == c.sched_waking_pid_field /\ rec.readable
    IN  IF ret_ok
        THEN [entry |-> [entry EXCEPT !.pid = ToInt32(rec.val),
                                      !.visible = Masks \ {KS_PLUGIN_UNTOUCHED_MASK}],
              collected |-> kshark_data_container_append(
                                c.collected_events, idx, ToInt64(rec.val))]
        ELSE [entry |-> entry,
              collected |-> kshark_data_container_append(
                                c.collected_events, idx, I64FromInt(NO_FIELD))]

\* waking_evt_tep_processing: the result is the entry and the collector.
waking_evt_tep_processing(c, rec, entry, idx) ==
    LET ret_ok == c.sched_waking_pid_field /\ rec.readable
    IN  IF ret_ok
        THEN [entry |-> [entry EXCEPT !.pid = ToInt32(rec.val),
                                      !.visible = @ \ {KS_PLUGIN_UNTOUCHED_MASK}],
              collected |-> kshark_data_container_append(
                                c.collected_events, idx, ToInt64(rec.val))]
        ELSE [entry |-> entry,
              collected |-> kshark_data_container_append(
                                c.collected_events, idx, I64FromInt(NO_FIELD))]

\* _select_events as built with _UNMODIFIED_KSHARK: no couplebreak branch.
select_events_unmodified(s, c, rec, entry, idx) ==
    IF ~c.exists THEN [entry |-> entry, collected |-> c.collected_events]
    ELSE IF ~c.has_container THEN [entry |-> entry, collected |-> c.collected_events]
    ELSE IF entry.event_id = c.sswitch_event_id
    THEN [entry |-> entry,
          collected |-> kshark_data_container_append(c.collected_events, idx, I64FromInt(NO_FIELD))]
    ELSE IF entry.event_id = c.waking_event_id
    THEN waking_evt_tep_processing(c, rec, entry, idx)
    ELSE [entry |-> entry, collected |-> c.collected_events]

\* _select_events clearing the untouched bit of a couplebreak entry as well.
select_events_coupled_touch(s, c, rec, entry, idx) ==
    IF ~c.exists THEN [entry |-> entry, collected |-> c.collected_events]
    ELSE IF ~c.has_container THEN [entry |-> entry, collected |-> c.collected_events]
    ELSE IF entry.event_id = c.sswitch_event_id
    THEN [entry |-> entry,
          collected |-> kshark_data_container_append(c.collected_events, idx, I64FromInt(NO_FIELD))]
    ELSE IF entry.event_id = c.waking_event_id
    THEN IF s.couplebreak_on
         THEN [entry |-> [entry EXCEPT !.visible = @ \ {KS_PLUGIN_UNTOUCHED_MASK}],
               collected |-> kshark_data_container_append(
                                 c.collected_events, idx, I64FromInt(entry.pid))]
         ELSE waking_evt_tep_processing(c, rec, entry, idx)
    ELSE [entry |-> entry, collected |-> c.collected_events]

\* _select_events whose switch falls through to a default that collects.
select_events_collect_all(s, c, rec, entry, idx) ==
    IF ~c.exists THEN [entry |-> entry, collected |-> c.collected_events]
    ELSE IF ~c.has_container THEN [entry |-> entry, collected |-> c.collected_events]
    ELSE IF entry.event_id = c.sswitch_event_id
    THEN [entry |-> entry,
          collected |-> kshark_data_container_append(c.collected_events, idx, I64FromInt(NO_FIELD))]
    ELSE IF entry.event_id = c.waking_event_id
    THEN IF s.couplebreak_on
         THEN [entry |-> entry,
               collected |-> kshark_data_container_append(
                                 c.collected_events, idx, I64FromInt(entry.pid))]
         ELSE waking_evt_tep_processing(c, rec, entry, idx)
    ELSE [entry |-> entry,
          collected |-> kshark_data_container_append(c.collected_events, idx, I64FromInt(NO_FIELD))]

\* _select_events: the result is the entry and the collector.
select_events(s, c, rec, entry, idx) ==
    IF ~c.exists THEN [entry |-> entry, collected |-> c.collected_events]
    ELSE IF ~c.has_container THEN [entry |-> entry, collected |-> c.collected_events]
    ELSE IF entry.event_id = c.sswitch_event_id
    THEN [entry |-> entry,
          collected |-> kshark_data_container_append(c.collected_events, idx, I64FromInt(NO_FIELD))]
    ELSE IF entry.event_id = c.waking_event_id
    THEN IF s.couplebreak_on
         THEN [entry |-> entry,
               collected |-> kshark_data_container_append(
                                 c.collected_events, idx, I64FromInt(entry.pid))]
         ELSE waking_evt_tep_processing(c, rec, entry, idx)
    ELSE [entry |-> entry, collected |-> c.collected_events]

(***************************************************************************)
(* Candidate predicates and the draw callback (Naps.cpp).                  *)
(***************************************************************************)
_nap_rect_check_function_general(entry) ==
    LET is_visible_event == KS_EVENT_VIEW_FILTER_MASK \in entry.visible
        is_visible_graph == KS_GRAPH_VIEW_FILTER_MASK \in entry.visible
    IN  is_visible_event /\ is_visible_graph

\* The lambda nap_rect_check_func_switch, for collector record t.
nap_rect_check_func_switch(c, es, data_c, t, val) ==
    LET entry == es[data_c[t].entry]
        is_switch == (entry.event_id = c.sswitch_event_id)
        correct_pid == (entry.pid = val)
    IN  _nap_rect_check_function_general(entry) /\ is_switch /\ correct_pid

\* nap_rect_check_func_waking without the comparison of the auxiliary field.
nap_rect_check_func_waking_any_key(c, es, data_c, i, val) ==
    LET entry == es[data_c[i].entry]
        is_waking == (entry.event_id = c.waking_event_id)
    IN  _nap_rect_check_function_general(entry) /\ is_waking

\* The lambda nap_rect_check_func_waking, for collector record i.
nap_rect_check_func_waking(c, es, data_c, i, val) ==
    LET entry == es[data_c[i].entry]
        d_field == data_c[i].field
        is_waking == (entry.event_id = c.waking_event_id)
        correct_waking_pid == (d_field = I64FromInt(val))
    IN  _nap_rect_check_function_general(entry) /\ is_waking /\ correct_waking_pid

\* IntervalScan looking for the B record from the start of the container.
RECURSIVE IntervalScan_b_from_start(_, _, _, _)
IntervalScan_b_from_start(A, B, from, n) ==
    LET as == {i \in from .. n : i \in A}
    IN  IF as = {} THEN <<>>
        ELSE LET a == Min(as)
                 bs == {j \in 1 .. n : j \in B}
             IN  IF bs = {} THEN <<>>
                 ELSE <<[start |-> a, end |-> Min(bs)]>>
                          \o IntervalScan_b_from_start(A, B, a + 1, n)

\* The host's interval pairing over one container of n records: A and B are
\* the sets of record indices accepted by the two check functions.  The first
\* A record at or after `from` is paired with the first B record strictly
\* after it, and the scan goes on after that B record.
RECURSIVE IntervalScan(_, _, _, _)
IntervalScan(A, B, from, n) ==
    LET as == {i \in from .. n : i \in A}
    IN  IF as = {} THEN <<>>
        ELSE LET a == Min(as)
                 bs == {j \in (a + 1) .. n : j \in B}
             IN  IF bs = {} THEN <<>>
                 ELSE <<[start |-> a, end |-> Min(bs)]>>
                          \o IntervalScan(A, B, Min(bs) + 1, n)

\* eventFieldIntervalPlot of the host: nothing for an empty container.
eventFieldIntervalPlot(n, A, B) ==
    IF n = 0 THEN <<>> ELSE IntervalScan(A, B, 1, n)

\* _draw_nap_rectangles passing the switch check function for both events.
_draw_nap_rectangles_same_check(plugin_data, c, es, val) ==
    eventFieldIntervalPlot(
        Len(plugin_data),
        {t \in 1 .. Len(plugin_data) : nap_rect_check_func_switch(c, es, plugin_data, t, val)},
        {i \in 1 .. Len(plugin_data) : nap_rect_check_func_switch(c, es, plugin_data, i, val)})

\* _draw_nap_rectangles: the intervals handed to the host for target val, as
\* pairs of collector indices.
_draw_nap_rectangles(plugin_data, c, es, val) ==
    eventFieldIntervalPlot(
        Len(plugin_data),
        {t \in 1 .. Len(plugin_data) : nap_rect_check_func_switch(c, es, plugin_data, t, val)},
        {i \in 1 .. Len(plugin_data) : nap_rect_check_func_waking(c, es, plugin_data, i, val)})

\* draw_nap_rectangles suppressing a frame whose count equals the limit.
draw_nap_rectangles_ge(c, cf, es, val, draw_action, tot_count) ==
    LET is_task_draw == (draw_action = KSHARK_TASK_DRAW)
        is_too_many_bins == (tot_count >= cf._histo_entries_limit)
    IN  IF ~is_task_draw \/ is_too_many_bins
        THEN [called |-> FALSE, shapes |-> <<>>]
        ELSE IF ~c.has_container
        THEN [called |-> FALSE, shapes |-> <<>>]
        ELSE [called |-> TRUE,
              shapes |-> _draw_nap_rectangles(c.collected_events, c, es, val)]

\* draw_nap_rectangles: whether the matcher was invoked, and what it emitted.
draw_nap_rectangles(c, cf, es, val, draw_action, tot_count) ==
    LET HISTO_ENTRIES_LIMIT == cf._histo_entries_limit
        is_task_draw == (draw_action = KSHARK_TASK_DRAW)
        is_too_many_bins == (tot_count > HISTO_ENTRIES_LIMIT)
    IN  IF ~is_task_draw \/ is_too_many_bins
        THEN [called |-> FALSE, shapes |-> <<>>]
        ELSE IF ~c.has_container
        THEN [called |-> FALSE, shapes |-> <<>>]
        ELSE [called |-> TRUE,
              shapes |-> _draw_nap_rectangles(c.collected_events, c, es, val)]

(***************************************************************************)
(* Init and deinit (naps.c).                                               *)
(***************************************************************************)
NoHandlers == [events |-> {}, draw |-> FALSE]

\* KSHARK_PLOT_PLUGIN_INITIALIZER.  fonts: the font files are known after the
\* lookup; alloc_ok: __init returned a context; container_ok:
\* kshark_init_data_container returned a container.
KSHARK_PLOT_PLUGIN_INITIALIZER(s, h, fonts, alloc_ok, container_ok) ==
    IF ~fonts THEN [ret |-> 0, ctx |-> NoCtx, handlers |-> h]
    ELSE IF ~alloc_ok THEN [ret |-> 0, ctx |-> NoCtx, handlers |-> h]
    ELSE IF ~s.is_tep THEN [ret |-> 0, ctx |-> NoCtx, handlers |-> h]
    ELSE
        LET waking_found == s.has_waking
            sswitch == FindSwitchId(s)
            swaking_id == FindWakingId(s)
            waking == IF s.couplebreak_on THEN COUPLEBREAK_SWT_ID ELSE swaking_id
        IN  [ret |-> 1,
             ctx |-> [exists |-> TRUE, has_container |-> container_ok,
                      collected_events |-> <<>>,
                      sswitch_event_id |-> sswitch,
                      waking_event_id |-> waking,
                      sched_waking_pid_field |-> waking_found],
             handlers |-> [events |-> h.events \cup {sswitch, waking},
                           draw |-> TRUE]]

\* KSHARK_PLOT_PLUGIN_DEINITIALIZER that leaves the draw handler registered.
KSHARK_PLOT_PLUGIN_DEINITIALIZER_keep_draw(c, h) ==
    IF c.exists
    THEN [ret |-> 1, ctx |-> NoCtx,
          handlers |-> [events |-> h.events \ {c.sswitch_event_id, c.waking_event_id},
                        draw |-> h.draw]]
    ELSE [ret |-> 0, ctx |-> NoCtx, handlers |-> h]

\* KSHARK_PLOT_PLUGIN_DEINITIALIZER (the stream id is never negative).
KSHARK_PLOT_PLUGIN_DEINITIALIZER(c, h) ==
    IF c.exists
    THEN [ret |-> 1, ctx |-> NoCtx,
          handlers |-> [events |-> h.events \ {c.sswitch_event_id, c.waking_event_id},
                        draw |-> FALSE]]
    ELSE [ret |-> 0, ctx |-> NoCtx, handlers |-> h]

(***************************************************************************)
(* Configuration (NapConfig.cpp).                                          *)
(***************************************************************************)
\* Default of NapConfig::_use_task_coloring.
DEFAULT_USE_TASK_COLORING == FALSE

\* NapConfig as constructed.
DefaultCfg ==
    [_histo_entries_limit |-> DEFAULT_HISTO_LIMIT,
     _use_task_coloring |-> DEFAULT_USE_TASK_COLORING]

\* Values the user sets the spin box to: its range 0 .. INT_MAX is set by
\* setup_histo_section.
HistoChoices == {0, 2, DEFAULT_HISTO_LIMIT, 2147483647}

\* NapConfigWindow::load_cfg_values: the controls after loading.
load_cfg_values(cf, w) ==
    [w EXCEPT !._histo_limit = cf._histo_entries_limit,
              !._task_col_btn = cf._use_task_coloring]

\* update_cfg that forgets the coloring switch.
update_cfg_limit_only(cf, w) ==
    [cf EXCEPT !._histo_entries_limit = w._histo_limit]

\* NapConfigWindow::update_cfg: the configuration after Apply.
update_cfg(cf, w) ==
    [cf EXCEPT !._histo_entries_limit = w._histo_limit,
               !._use_task_coloring = w._task_col_btn]

\* The window as constructed (setup_histo_section, setup_tasklike_coloring).
NapConfigWindow(cf) ==
    [_histo_limit |-> cf._histo_entries_limit,
     _task_col_btn |-> cf._use_task_coloring,
     shown |-> FALSE]

(***************************************************************************)
(* State machine.                                                          *)
(***************************************************************************)
\* Streams the host may open: tep streams with or without the two scheduler
\* events, with couplebreak on or off, and a stream that is not a tep stream.
StreamChoices ==
    [couplebreak_on : BOOLEAN, is_tep : {TRUE}, has_switch : BOOLEAN, has_waking : BOOLEAN]
    \cup {[couplebreak_on |-> FALSE, is_tep |-> FALSE,
           has_switch |-> FALSE, has_waking |-> FALSE]}

\* The task whose entries also occur with one of the filter bits cleared.
FilteredPid == Min(Pids)
VisOf(p, vis) == IF p = FilteredPid THEN vis ELSE {Masks}

\* Records the host reads from stream s: the entry it builds and the raw
\* record.  A sched_switch of task p; a sched_waking issued by task p whose pid
\* field names another task w, or whose pid field cannot be read; with
\* couplebreak on, the couplebreak/sched_waking[target] entry owned by the
\* woken task w; and an event of another kind.
Records(s, vis) ==
    UNION {{[entry |-> Entry(SCHED_SWITCH_ID, p, v), rec |-> NoRec] : v \in VisOf(p, vis)} :
              p \in {q \in Pids : s.has_switch}}
    \cup UNION {{[entry |-> Entry(SCHED_WAKING_ID, p, v),
                  rec |-> [readable |-> TRUE, val |-> U64(w)]] :
                    p \in Pids \ {w},
                    v \in IF s.couplebreak_on THEN {Masks} ELSE VisOf(w, vis)} :
                w \in {q \in Pids : s.has_waking}}
    \cup {[entry |-> Entry(SCHED_WAKING_ID, p, Masks), rec |-> NoRec] :
        p \in {q \in Pids : s.has_waking /\ ~s.couplebreak_on /\ q # FilteredPid}}
    \cup UNION {{[entry |-> Entry(COUPLEBREAK_SWT_ID, w, v), rec |-> NoRec] :
                    v \in VisOf(w, vis)} :
                w \in {q \in Pids : s.has_waking /\ s.couplebreak_on}}
    \cup {[entry |-> Entry(OTHER_EVENT_ID, FilteredPid, Masks), rec |-> NoRec]}

\* The records of Spec: entries of one task may have a filter bit cleared.
RecordChoices(s) == Records(s, VisChoices)

\* The records of SpecMatch: every entry is visible.
VisibleRecordChoices(s) == Records(s, {Masks})

\* One step of the host's load on record x: the entry is stored, and the
\* event handler registered for its event id, if any, runs on it.
HostLoad(s, c, h, es, x) ==
    LET idx == Len(es) + 1
        r == IF x.entry.event_id \in h.events
             THEN select_events(s, c, x.rec, x.entry, idx)
             ELSE [entry |-> x.entry, collected |-> c.collected_events]
    IN  [entries |-> Append(es, r.entry),
         ctx |-> [c EXCEPT !.collected_events = r.collected]]

NoRet == [call |-> "none", value |-> 0]
NoNapRect == [status |-> "none"]
NoContrast == [done |-> FALSE]
NoDraw ==
    [done |-> FALSE, val |-> 0, draw_action |-> KSHARK_CPU_DRAW, tot_count |-> 0,
     called |-> FALSE, shapes |-> <<>>]

Init ==
    /\ stream \in StreamChoices
    /\ trace = <<>>
    /\ entries = <<>>
    /\ ctx = NoCtx
    /\ handlers = NoHandlers
    /\ font_file = FALSE
    /\ ret = NoRet
    /\ cfg = DefaultCfg
    /\ win = NapConfigWindow(cfg)
    /\ applied = [values |-> cfg, last |-> "none"]
    /\ last_draw = NoDraw
    /\ nap_rect = NoNapRect
    /\ contrast = NoContrast

\* The host loads the plugin for the stream; the data is (re)loaded afterwards.
PluginInit ==
    /\ ~ctx.exists
    /\ \E found \in BOOLEAN, alloc_ok \in BOOLEAN, container_ok \in BOOLEAN :
        LET fonts == font_file \/ found
            r == KSHARK_PLOT_PLUGIN_INITIALIZER(stream, handlers, fonts, alloc_ok, container_ok)
        IN  /\ font_file' = fonts
            /\ ctx' = r.ctx
            /\ handlers' = r.handlers
            /\ ret' = [call |-> "init", value |-> r.ret]
    /\ trace' = <<>>
    /\ entries' = <<>>
    /\ last_draw' = NoDraw
    /\ UNCHANGED <<stream, cfg, win, applied, nap_rect, contrast>>

\* The host unloads the plugin from the stream.
PluginDeinit ==
    /\ LET r == KSHARK_PLOT_PLUGIN_DEINITIALIZER(ctx, handlers)
       IN  /\ ctx' = r.ctx
           /\ handlers' = r.handlers
           /\ ret' = [call |-> "deinit", value |-> r.ret]
    /\ last_draw' = NoDraw
    /\ UNCHANGED <<stream, trace, entries, font_file, cfg, win, applied, nap_rect, contrast>>

\* One step of the host's load: the next record of the trace becomes an
\* entry, and the handler registered for its event id, if any, runs on it.
LoadRecord ==
    /\ ctx.exists
    /\ Len(entries) < MaxRecords
    /\ \E x \in RecordChoices(stream) :
        LET r == HostLoad(stream, ctx, handlers, entries, x)
        IN  /\ trace' = Append(trace, x)
            /\ entries' = r.entries
            /\ ctx' = r.ctx
    /\ last_draw' = NoDraw
    /\ UNCHANGED <<stream, handlers, font_file, ret, cfg, win, applied, nap_rect, contrast>>

\* LoadRecord on the longer traces of visible entries.
LoadVisibleRecord ==
    /\ ctx.exists
    /\ Len(entries) < MaxMatchRecords
    /\ \E x \in VisibleRecordChoices(stream) :
        LET r == HostLoad(stream, ctx, handlers, entries, x)
        IN  /\ trace' = Append(trace, x)
            /\ entries' = r.entries
            /\ ctx' = r.ctx
    /\ last_draw' = NoDraw
    /\ UNCHANGED <<stream, handlers, font_file, ret, cfg, win, applied, nap_rect, contrast>>

\* The host changes the stream's couplebreak setting.
ToggleCouplebreak ==
    /\ stream' = [stream EXCEPT !.couplebreak_on = ~@]
    /\ UNCHANGED <<trace, entries, ctx, handlers, font_file, ret, cfg, win, applied, last_draw, nap_rect, contrast>>

\* Draw actions and total entry counts of the visible window the host passes:
\* either view with the count at the configured limit, the task view above it.
DrawChoices ==
    {[draw_action |-> a, tot_count |-> cfg._histo_entries_limit] : a \in DrawActions}
    \cup {[draw_action |-> KSHARK_TASK_DRAW, tot_count |-> cfg._histo_entries_limit + 1]}

\* The draw handler keeping its scan position between frames: the records up
\* to the last emitted interval are dropped from the collector.
Draw_consuming ==
    /\ handlers.draw
    /\ ctx.exists
    /\ \E val \in Pids, d \in DrawChoices :
        LET r == draw_nap_rectangles(ctx, cfg, entries, val, d.draw_action, d.tot_count)
            last == IF r.shapes = <<>> THEN 0 ELSE r.shapes[Len(r.shapes)].end
        IN  /\ last_draw' = [done |-> TRUE, val |-> val, draw_action |-> d.draw_action,
                             tot_count |-> d.tot_count, called |-> r.called,
                             shapes |-> r.shapes]
            /\ ctx' = [ctx EXCEPT !.collected_events = SubSeq(@, last + 1, Len(@))]
    /\ UNCHANGED <<stream, trace, entries, handlers, font_file, ret, cfg, win, applied, nap_rect, contrast>>

\* The host calls the registered draw handler for one plot of a redraw.
Draw ==
    /\ handlers.draw
    /\ ctx.exists
    /\ \E val \in Pids, d \in DrawChoices :
        LET r == draw_nap_rectangles(ctx, cfg, entries, val, d.draw_action, d.tot_count)
        IN  last_draw' = [done |-> TRUE, val |-> val, draw_action |-> d.draw_action,
                          tot_count |-> d.tot_count, called |-> r.called,
                          shapes |-> r.shapes]
    /\ UNCHANGED <<stream, trace, entries, ctx, handlers, font_file, ret, cfg, win, applied, nap_rect, contrast>>

Next ==
    \/ PluginInit
    \/ PluginDeinit
    \/ LoadRecord
    \/ Draw

Spec == Init /\ [][Next]_vars

\* Streams with both scheduler events, loaded with visible entries only.
InitMatch ==
    /\ Init
    /\ stream.is_tep /\ stream.has_switch /\ stream.has_waking

NextMatch ==
    \/ PluginInit
    \/ LoadVisibleRecord
    \/ Draw

SpecMatch == InitMatch /\ [][NextMatch]_vars

(***************************************************************************)
(* Loads during which the host changes the couplebreak setting, and loads  *)
(* of records whose pid field holds any 64-bit value.                      *)
(***************************************************************************)
NextToggle ==
    \/ PluginInit
    \/ PluginDeinit
    \/ ToggleCouplebreak
    \/ LoadVisibleRecord

SpecToggle == InitMatch /\ [][NextToggle]_vars

\* Values tep_read_number_field may store in the unsigned long long: a task
\* id, 2^31 - 1, 2^31, 2^32 - 1, 2^32 + 5, 2^63 and 2^64 - 1.
WideValues ==
    {U64(5),
     <<0, 0, LimbSign - 1, LimbBase - 1>>,
     <<0, 0, LimbSign, 0>>,
     <<0, 0, LimbBase - 1, LimbBase - 1>>,
     <<0, 1, 0, 5>>,
     <<LimbSign, 0, 0, 0>>,
     <<LimbBase - 1, LimbBase - 1, LimbBase - 1, LimbBase - 1>>}

\* sched_switch records, and sched_waking records issued by task 7 whose pid
\* field reads as one of WideValues.
WideRecordChoices(s) ==
    {[entry |-> Entry(SCHED_SWITCH_ID, p, Masks), rec |-> NoRec] : p \in Pids}
    \cup {[entry |-> Entry(SCHED_WAKING_ID, 7, Masks),
           rec |-> [readable |-> TRUE, val |-> v]] : v \in WideValues}

\* LoadRecord on the records of WideRecordChoices.
LoadWideRecord ==
    /\ ctx.exists
    /\ Len(entries) < MaxMatchRecords
    /\ \E x \in WideRecordChoices(stream) :
        LET r == HostLoad(stream, ctx, handlers, entries, x)
        IN  /\ trace' = Append(trace, x)
            /\ entries' = r.entries
            /\ ctx' = r.ctx
    /\ last_draw' = NoDraw
    /\ UNCHANGED <<stream, handlers, font_file, ret, cfg, win, applied, nap_rect, contrast>>

\* Direct-mode streams with both scheduler events.
InitWide ==
    /\ InitMatch
    /\ ~stream.couplebreak_on

NextWide ==
    \/ PluginInit
    \/ LoadWideRecord

SpecWide == InitWide /\ [][NextWide]_vars

(***************************************************************************)
(* The settings surface (NapConfig.cpp, Naps.cpp config_show).             *)
(***************************************************************************)
ControlValues(w) ==
    [_histo_entries_limit |-> w._histo_limit, _use_task_coloring |-> w._task_col_btn]

\* config_show: the menu entry loads the configuration into the controls and
\* shows the window.
ConfigShow ==
    /\ win' = [load_cfg_values(cfg, win) EXCEPT !.shown = TRUE]
    /\ applied' = [applied EXCEPT !.last = "show"]
    /\ UNCHANGED <<stream, trace, entries, ctx, handlers, font_file, ret, cfg, last_draw, nap_rect, contrast>>

\* The user changes the spin box and the check box of the shown window.
EditControls ==
    /\ win.shown
    /\ \E l \in HistoChoices, b \in BOOLEAN :
        /\ <<l, b>> # <<win._histo_limit, win._task_col_btn>>
        /\ win' = [win EXCEPT !._histo_limit = l, !._task_col_btn = b]
    /\ applied' = [applied EXCEPT !.last = "edit"]
    /\ UNCHANGED <<stream, trace, entries, ctx, handlers, font_file, ret, cfg, last_draw, nap_rect, contrast>>

\* The Apply button: update_cfg, then close.
ApplyPressed ==
    /\ win.shown
    /\ cfg' = update_cfg(cfg, win)
    /\ win' = [win EXCEPT !.shown = FALSE]
    /\ applied' = [values |-> ControlValues(win), last |-> "apply"]
    /\ UNCHANGED <<stream, trace, entries, ctx, handlers, font_file, ret, last_draw, nap_rect, contrast>>

\* The Close button: QWidget::close.
ClosePressed ==
    /\ win.shown
    /\ win' = [win EXCEPT !.shown = FALSE]
    /\ applied' = [applied EXCEPT !.last = "close"]
    /\ UNCHANGED <<stream, trace, entries, ctx, handlers, font_file, ret, cfg, last_draw, nap_rect, contrast>>

\* The state after KSHARK_MENU_PLUGIN_INITIALIZER, with no stream loaded.
InitCfg ==
    /\ stream = [couplebreak_on |-> FALSE, is_tep |-> TRUE,
                 has_switch |-> TRUE, has_waking |-> TRUE]
    /\ trace = <<>>
    /\ entries = <<>>
    /\ ctx = NoCtx
    /\ handlers = NoHandlers
    /\ font_file = FALSE
    /\ ret = NoRet
    /\ cfg = DefaultCfg
    /\ win = NapConfigWindow(cfg)
    /\ applied = [values |-> cfg, last |-> "none"]
    /\ last_draw = NoDraw
    /\ nap_rect = NoNapRect
    /\ contrast = NoContrast

NextCfg ==
    \/ ConfigShow
    \/ EditControls
    \/ ApplyPressed
    \/ ClosePressed

SpecCfg == InitCfg /\ [][NextCfg]_vars

(***************************************************************************)
(* Strings, size_t and colours of the renderer.                            *)
(***************************************************************************)
\* A std::string is the sequence of its characters.  The marker " ==>".
MARKER == <<" ", "=", "=", ">">>

\* The character '\0' that operator[] yields at the end of a string.
NUL == "\\0"

\* std::string::npos, the largest size_t.
NPOS == <<LimbBase - 1, LimbBase - 1, LimbBase - 1, LimbBase - 1>>

\* str.find(sub): the position of the first occurrence, or npos.
find(str, sub) ==
    LET hits == {i \in 0 .. (Len(str) - Len(sub)) : SubSeq(str, i + 1, i + Len(sub)) = sub}
    IN  IF hits = {} THEN NPOS ELSE U64(Min(hits))

\* pos - 1 that stays at zero instead of wrapping.
SizeMinusOne_clamped(pos) ==
    IF pos[4] > 0 THEN <<pos[1], pos[2], pos[3], pos[4] - 1>>
    ELSE IF pos[3] > 0 THEN <<pos[1], pos[2], pos[3] - 1, LimbBase - 1>>
    ELSE IF pos[2] > 0 THEN <<pos[1], pos[2] - 1, LimbBase - 1, LimbBase - 1>>
    ELSE IF pos[1] > 0 THEN <<pos[1] - 1, LimbBase - 1, LimbBase - 1, LimbBase - 1>>
    ELSE pos

\* pos - 1 of a size_t pos: wraps below zero.
SizeMinusOne(pos) ==
    IF pos[4] > 0 THEN <<pos[1], pos[2], pos[3], pos[4] - 1>>
    ELSE IF pos[3] > 0 THEN <<pos[1], pos[2], pos[3] - 1, LimbBase - 1>>
    ELSE IF pos[2] > 0 THEN <<pos[1], pos[2] - 1, LimbBase - 1, LimbBase - 1>>
    ELSE IF pos[1] > 0 THEN <<pos[1] - 1, LimbBase - 1, LimbBase - 1, LimbBase - 1>>
    ELSE NPOS

\* pos > n for a size_t pos and a string size n.
SizeGreater(pos, n) ==
    \/ pos[1] > 0 \/ pos[2] > 0 \/ pos[3] >= LimbSign
    \/ pos[3] * LimbBase + pos[4] > n

\* str.substr(pos, 1): std::out_of_range when pos > size().
substr1(str, pos) ==
    IF SizeGreater(pos, Len(str))
    THEN [fault |-> TRUE, value |-> <<>>]
    ELSE LET p == pos[3] * LimbBase + pos[4]
         IN  [fault |-> FALSE, value |-> SubSeq(str, p + 1, IF p + 1 <= Len(str) THEN p + 1 ELSE p)]

\* std::toupper in the C locale.
LowerCase == <<"a", "b", "c", "d", "e", "f", "g", "h", "i", "j", "k", "l", "m", "n", "o", "p", "q", "r", "s", "t", "u", "v", "w", "x", "y", "z">>
UpperCase == <<"A", "B", "C", "D", "E", "F", "G", "H", "I", "J", "K", "L", "M", "N", "O", "P", "Q", "R", "S", "T", "U", "V", "W", "X", "Y", "Z">>
toupper(ch) ==
    IF \E i \in DOMAIN LowerCase : LowerCase[i] = ch
    THEN UpperCase[CHOOSE i \in DOMAIN LowerCase : LowerCase[i] = ch]
    ELSE ch

\* KsPlot::Color(uint8_t r, uint8_t g, uint8_t b): the arguments converted to uint8_t.
Color(r, g, b) == [r |-> r % 256, g |-> g % 256, b |-> b % 256]

(***************************************************************************)
(* float arithmetic of _get_color_intensity: a float is m * 2^e with       *)
(* 2^23 <= m < 2^24, or m = 0; results are rounded to nearest, ties to     *)
(* even.                                                                   *)
(***************************************************************************)
FloatZero == [m |-> 0, e |-> 0]

\* n / 2^k rounded to nearest, ties to even.
RoundShift(n, k) ==
    IF k = 0 THEN n
    ELSE LET q == n \div 2^k
             r == n % 2^k
             half == 2^(k - 1)
         IN  IF r > half \/ (r = half /\ q % 2 = 1) THEN q + 1 ELSE q

\* A rounded mantissa that reached 2^24 moves to the next exponent.
Renormalise(m, e) == IF m = 2^24 THEN [m |-> 2^23, e |-> e + 1] ELSE [m |-> m, e |-> e]

\* (float)c * f for a colour component c in 0 .. 255.
IntTimesFloat(c, f) ==
    IF c = 0 \/ f.m = 0 THEN FloatZero
    ELSE LET mh == f.m \div 256
             ml == f.m % 256
             q == c * mh + (c * ml) \div 256
             rem == (c * ml) % 256
             j == Min({i \in 0 .. 8 : q >= 2^(23 - i)})
             k == 8 - j
             top == q * 2^j + rem \div 2^k
             rest == rem % 2^k
             half == IF k = 0 THEN 1 ELSE 2^(k - 1)
             up == k > 0 /\ (rest > half \/ (rest = half /\ top % 2 = 1))
         IN  Renormalise(IF up THEN top + 1 ELSE top, f.e + k)

\* a + b of two non-negative floats, with three guard bits and a sticky bit.
FloatAdd(a, b) ==
    IF a.m = 0 THEN b
    ELSE IF b.m = 0 THEN a
    ELSE LET big == IF a.e >= b.e THEN a ELSE b
             small == IF a.e >= b.e THEN b ELSE a
             d == big.e - small.e
             B == big.m * 8
             S == IF d <= 3 THEN small.m * 2^(3 - d)
                  ELSE IF d - 3 > 24 THEN 1
                  ELSE LET sh == small.m \div 2^(d - 3)
                           sticky == small.m % 2^(d - 3) # 0
                       IN  IF sticky /\ sh % 2 = 0 THEN sh + 1 ELSE sh
             T == B + S
             k == IF T >= 2^27 THEN 4 ELSE 3
         IN  Renormalise(RoundShift(T, k), big.e - 3 + k)

\* a > b of two non-negative floats.
FloatGreater(a, b) ==
    IF a.m = 0 THEN FALSE
    ELSE IF b.m = 0 THEN TRUE
    ELSE a.e > b.e \/ (a.e = b.e /\ a.m > b.m)

\* The float literals 0.114f, 0.587f, 0.299f and 128.f.
F_0_114 == [m |-> 15300821, e |-> -27]
F_0_587 == [m |-> 9848226, e |-> -24]
F_0_299 == [m |-> 10032775, e |-> -25]
INTENSITY_LIMIT == [m |-> 2^23, e |-> -16]

(***************************************************************************)
(* Interval renderer (Naps.cpp, NapRectangle.cpp).                         *)
(***************************************************************************)
HEIGHT == 8
HEIGHT_OFFSET == -10
FONT_SIZE == 7

\* PREV_STATE_TO_COLOR without the lower-case state.
PREV_STATE_TO_COLOR_no_t ==
    "D" :> Color(255, 0, 0) @@
    "I" :> Color(255, 255, 0) @@
    "P" :> Color(255, 165, 0) @@
    "R" :> Color(0, 255, 0) @@
    "S" :> Color(0, 0, 255) @@
    "T" :> Color(0, 255, 255) @@
    "X" :> Color(255, 0, 255) @@
    "Z" :> Color(128, 0, 128)

PREV_STATE_TO_COLOR ==
    "D" :> Color(255, 0, 0) @@
    "I" :> Color(255, 255, 0) @@
    "P" :> Color(255, 165, 0) @@
    "R" :> Color(0, 255, 0) @@
    "S" :> Color(0, 0, 255) @@
    "T" :> Color(0, 255, 255) @@
    "t" :> Color(139, 69, 19) @@
    "X" :> Color(255, 0, 255) @@
    "Z" :> Color(128, 0, 128)

LETTER_TO_NAME ==
    "D" :> <<"u", "n", "i", "n", "t", "e", "r", "r", "u", "p", "t", "i", "b", "l", "e", " ", "(", "d", "i", "s", "k", ")", " ", "s", "l", "e", "e", "p">> @@
    "I" :> <<"i", "d", "l", "e">> @@
    "P" :> <<"p", "a", "r", "k", "e", "d">> @@
    "R" :> <<"r", "u", "n", "n", "i", "n", "g">> @@
    "S" :> <<"s", "l", "e", "e", "p", "i", "n", "g">> @@
    "T" :> <<"s", "t", "o", "p", "p", "e", "d">> @@
    "t" :> <<"t", "r", "a", "c", "i", "n", "g", " ", "s", "t", "o", "p">> @@
    "X" :> <<"d", "e", "a", "d">> @@
    "Z" :> <<"z", "o", "m", "b", "i", "e">>

WHITE == Color(255, 255, 255)
BLACK == Color(0, 0, 0)

\* The fail-safe colour of _get_task_color.
DEFAULT_COLOR == Color(256, 256, 256)

\* The exception a failed lookup or substr raises.
OutOfRange == [status |-> "fault", what |-> "std::out_of_range"]

\* The info string of an entry, as the host formats it.
kshark_get_info(entry) == entry.info

\* get_switch_prev_state: the character before " ==>", or the fault of substr.
get_switch_prev_state(entry) ==
    LET info_as_str == kshark_get_info(entry)
        start == find(info_as_str, MARKER)
        sub == substr1(info_as_str, SizeMinusOne(start))
    IN  IF sub.fault THEN [fault |-> TRUE, value |-> NUL]
        ELSE [fault |-> FALSE,
              value |-> IF sub.value = <<>> THEN NUL ELSE sub.value[1]]

\* _get_task_color: the colour of the pid in the host's table, else the fail-safe colour.
_get_task_color(pid, pid_color_table) ==
    LET result_color == DEFAULT_COLOR
        pid_color_exists == pid \in DOMAIN pid_color_table
    IN  IF pid_color_exists THEN pid_color_table[pid] ELSE result_color

\* _black_or_white_text comparing with >=.
_black_or_white_text_ge(bg_color_intensity) ==
    IF FloatGreater(bg_color_intensity, INTENSITY_LIMIT) \/ bg_color_intensity = INTENSITY_LIMIT
    THEN BLACK ELSE WHITE

_black_or_white_text(bg_color_intensity) ==
    IF FloatGreater(bg_color_intensity, INTENSITY_LIMIT) THEN BLACK ELSE WHITE

_get_color_intensity(c) ==
    FloatAdd(FloatAdd(IntTimesFloat(c.b, F_0_114), IntTimesFloat(c.g, F_0_587)),
             IntTimesFloat(c.r, F_0_299))

\* NapRectangle::NapRectangle: the object, or the fault of a failed lookup.
NapRectangle(start, end, rect, outline_col, text_col) ==
    LET start_ps == get_switch_prev_state(start)
    IN  IF start_ps.fault THEN OutOfRange
        ELSE IF start_ps.value \notin DOMAIN LETTER_TO_NAME THEN OutOfRange
        ELSE LET name == LETTER_TO_NAME[start_ps.value]
                 raw_text == [i \in DOMAIN name |-> toupper(name[i])]
                 base_x_1 == rect.points[1].x
                 base_x_2 == rect.points[4].x
                 base_y == rect.points[2].y
                 rectangle_end == (base_x_2 - base_x_1) \div 2
                 text_centering == (Len(raw_text) * FONT_SIZE) \div 3
                 actual_x == base_x_1 + rectangle_end - text_centering
             IN  [status |-> "built",
                  _start_entry |-> start, _end_entry |-> end, _rect |-> rect,
                  _outline_up |-> [_color |-> outline_col,
                                   a |-> rect.points[1], b |-> rect.points[4]],
                  _outline_down |-> [_color |-> outline_col,
                                     a |-> rect.points[2], b |-> rect.points[3]],
                  _raw_text |-> raw_text,
                  _text |-> [text |-> raw_text, _color |-> text_col,
                             point |-> [x |-> actual_x, y |-> base_y + 1]]]

\* NapRectangle::_draw without the comparison of the two upper corners.
NapRectangle_draw_unchecked(o) ==
    LET nap_rect_width == o._rect.points[4].x - o._rect.points[1].x
        minimal_width == Len(o._raw_text) * FONT_SIZE
    IN  {"_rect", "_outline_up", "_outline_down"}
            \cup (IF nap_rect_width > minimal_width THEN {"_text"} ELSE {})

\* NapRectangle::_draw: the plot objects that get drawn.
NapRectangle_draw(o) ==
    IF o._rect.points[1].y = o._rect.points[4].y
    THEN LET nap_rect_width == o._rect.points[4].x - o._rect.points[1].x
             minimal_width == Len(o._raw_text) * FONT_SIZE
         IN  {"_rect", "_outline_up", "_outline_down"}
                 \cup (IF nap_rect_width > minimal_width THEN {"_text"} ELSE {})
    ELSE {}

\* _make_nap_rect: the NapRectangle returned to the host, or the fault raised.
\* The points of the rectangle are kept in the order 0, 1, 2, 3.
_make_nap_rect(start_base_point, end_base_point, switch_entry, wakeup_entry, cf, pid_color_table) ==
    LET point_0 == [x |-> start_base_point.x + 1,
                    y |-> start_base_point.y - HEIGHT_OFFSET - HEIGHT]
        point_1 == [x |-> start_base_point.x + 1,
                    y |-> start_base_point.y - HEIGHT_OFFSET]
        point_3 == [x |-> end_base_point.x - 1,
                    y |-> end_base_point.y - HEIGHT_OFFSET - HEIGHT]
        point_2 == [x |-> end_base_point.x - 1,
                    y |-> end_base_point.y - HEIGHT_OFFSET]
        ps == get_switch_prev_state(switch_entry)
    IN  IF ps.fault THEN OutOfRange
        ELSE IF ps.value \notin DOMAIN PREV_STATE_TO_COLOR THEN OutOfRange
        ELSE LET rect == [_color |-> PREV_STATE_TO_COLOR[ps.value],
                          points |-> <<point_0, point_1, point_2, point_3>>]
                 outline_col == IF cf._use_task_coloring
                                THEN _get_task_color(switch_entry.pid, pid_color_table)
                                ELSE rect._color
                 bg_intensity == _get_color_intensity(rect._color)
                 text_color == _black_or_white_text(bg_intensity)
             IN  NapRectangle(switch_entry, wakeup_entry, rect, outline_col, text_color)

(***************************************************************************)
(* The renderer's state machine: the host found a pair and calls            *)
(* _make_nap_rect, later it draws the shape it got; the text colour of a   *)
(* fill colour.                                                            *)
(***************************************************************************)
\* Info strings of sched_switch entries as far as the plugin reads them:
\* "=<state> ==> n" for the nine states, for the state "R+" and for an unknown
\* letter; a string without the marker, one that starts with it, an empty one.
Info(state) == <<"=">> \o state \o MARKER \o <<" ", "n">>
PrevStates == {"D", "I", "P", "R", "S", "T", "t", "X", "Z"}
InfoChoices ==
    {Info(<<c>>) : c \in PrevStates}
    \cup {Info(<<"R", "+">>), Info(<<"W">>)}
    \cup {<<"=", "S", " ", "n">>, MARKER \o <<" ", "n">>, <<>>}

\* The host's per-task colour table: without task 7, and with task 7 in white.
PidColorTables ==
    {5 :> Color(10, 20, 250),
     (5 :> Color(10, 20, 250)) @@ (7 :> Color(255, 255, 255))}

\* Bin-anchor points of the two entries: on one plot line or on two, near or far.
StartPoint == [x |-> 10, y |-> 100]
EndPoints == {[x |-> x, y |-> y] : x \in {60, 400}, y \in {100, 140}}

\* Every colour <<r, g, b>> with 299 r + 587 g + 114 b = 128000: luminance 128.
Luminance128 ==
    {<<1, 189, 147>>, <<4, 210, 31>>, <<5, 179, 188>>, <<8, 200, 72>>, <<9, 169, 229>>,
     <<12, 190, 113>>, <<16, 180, 154>>, <<19, 201, 38>>, <<20, 170, 195>>, <<23, 191, 79>>,
     <<24, 160, 236>>, <<27, 181, 120>>, <<30, 202, 4>>, <<31, 171, 161>>, <<34, 192, 45>>,
     <<35, 161, 202>>, <<38, 182, 86>>, <<39, 151, 243>>, <<42, 172, 127>>, <<45, 193, 11>>,
     <<46, 162, 168>>, <<49, 183, 52>>, <<50, 152, 209>>, <<53, 173, 93>>, <<54, 142, 250>>,
     <<57, 163, 134>>, <<60, 184, 18>>, <<61, 153, 175>>, <<64, 174, 59>>, <<65, 143, 216>>,
     <<68, 164, 100>>, <<72, 154, 141>>, <<75, 175, 25>>, <<76, 144, 182>>, <<79, 165, 66>>,
     <<80, 134, 223>>, <<83, 155, 107>>, <<87, 145, 148>>, <<90, 166, 32>>, <<91, 135, 189>>,
     <<94, 156, 73>>, <<95, 125, 230>>, <<98, 146, 114>>, <<102, 136, 155>>, <<105, 157, 39>>,
     <<106, 126, 196>>, <<109, 147, 80>>, <<110, 116, 237>>, <<113, 137, 121>>,
     <<116, 158, 5>>, <<117, 127, 162>>, <<120, 148, 46>>, <<121, 117, 203>>, <<124, 138, 87>>,
     <<125, 107, 244>>, <<128, 128, 128>>, <<131, 149, 12>>, <<132, 118, 169>>,
     <<135, 139, 53>>, <<136, 108, 210>>, <<139, 129, 94>>, <<140, 98, 251>>,
     <<143, 119, 135>>, <<146, 140, 19>>, <<147, 109, 176>>, <<150, 130, 60>>,
     <<151, 99, 217>>, <<154, 120, 101>>, <<158, 110, 142>>, <<161, 131, 26>>,
     <<162, 100, 183>>, <<165, 121, 67>>, <<166, 90, 224>>, <<169, 111, 108>>,
     <<173, 101, 149>>, <<176, 122, 33>>, <<177, 91, 190>>, <<180, 112, 74>>, <<181, 81, 231>>,
     <<184, 102, 115>>, <<188, 92, 156>>, <<191, 113, 40>>, <<192, 82, 197>>, <<195, 103, 81>>,
     <<196, 72, 238>>, <<199, 93, 122>>, <<202, 114, 6>>, <<203, 83, 163>>, <<206, 104, 47>>,
     <<207, 73, 204>>, <<210, 94, 88>>, <<211, 63, 245>>, <<214, 84, 129>>, <<217, 105, 13>>,
     <<218, 74, 170>>, <<221, 95, 54>>, <<222, 64, 211>>, <<225, 85, 95>>, <<226, 54, 252>>,
     <<229, 75, 136>>, <<232, 96, 20>>, <<233, 65, 177>>, <<236, 86, 61>>, <<237, 55, 218>>,
     <<240, 76, 102>>, <<244, 66, 143>>, <<247, 87, 27>>, <<248, 56, 184>>, <<251, 77, 68>>,
     <<252, 46, 225>>, <<255, 67, 109>>}

\* Fill colours whose text colour is computed: the table's colours, black,
\* white, the colours of luminance exactly 128, and colours of luminance
\* 127.999, 128.001 and 129.
ColorChoices ==
    {PREV_STATE_TO_COLOR[c] : c \in DOMAIN PREV_STATE_TO_COLOR}
    \cup {Color(0, 0, 0), Color(255, 255, 255)}
    \cup {Color(t[1], t[2], t[3]) : t \in Luminance128}
    \cup {Color(0, 173, 232), Color(6, 215, 0), Color(2, 205, 62), Color(6, 195, 103),
          Color(2, 190, 148), Color(5, 211, 32)}

\* The host calls _make_nap_rect for a matched pair.
MakeNapRect ==
    /\ \E info \in InfoChoices, pid \in Pids, table \in PidColorTables, end_base \in EndPoints :
        LET sw == [event_id |-> SCHED_SWITCH_ID, pid |-> pid, visible |-> Masks,
                   info |-> info]
            wk == [event_id |-> SCHED_WAKING_ID, pid |-> pid, visible |-> Masks,
                   info |-> <<>>]
            r == _make_nap_rect(StartPoint, end_base, sw, wk, cfg, table)
        IN  nap_rect' = [status |-> r.status, switch_entry |-> sw,
                         start_base_point |-> StartPoint, end_base_point |-> end_base,
                         pid_color_table |-> table, shape |-> r,
                         draw_called |-> FALSE, drawn |-> {}]
    /\ UNCHANGED <<stream, trace, entries, ctx, handlers, font_file, ret, cfg, win, applied,
                   last_draw, contrast>>

\* The host draws the shape it was handed.
DrawNapRect ==
    /\ nap_rect.status = "built"
    /\ ~nap_rect.draw_called
    /\ nap_rect' = [nap_rect EXCEPT !.draw_called = TRUE,
                                    !.drawn = NapRectangle_draw(nap_rect.shape)]
    /\ UNCHANGED <<stream, trace, entries, ctx, handlers, font_file, ret, cfg, win, applied,
                   last_draw, contrast>>

\* The text colour of a fill colour (Naps.cpp:219-220).
TextColor ==
    /\ \E c \in ColorChoices :
        LET bg_intensity == _get_color_intensity(c)
        IN  contrast' = [done |-> TRUE, color |-> c, intensity |-> bg_intensity,
                         text_color |-> _black_or_white_text(bg_intensity)]
    /\ UNCHANGED <<stream, trace, entries, ctx, handlers, font_file, ret, cfg, win, applied,
                   last_draw, nap_rect>>

\* The configuration is as constructed or as an Apply of the settings window
\* with the coloring switch checked left it.
InitRender ==
    /\ stream = [couplebreak_on |-> FALSE, is_tep |-> TRUE,
                 has_switch |-> TRUE, has_waking |-> TRUE]
    /\ trace = <<>>
    /\ entries = <<>>
    /\ ctx = NoCtx
    /\ handlers = NoHandlers
    /\ font_file = FALSE
    /\ ret = NoRet
    /\ cfg \in {DefaultCfg, update_cfg(DefaultCfg, [NapConfigWindow(DefaultCfg)
                                                      EXCEPT !._task_col_btn = TRUE])}
    /\ win = NapConfigWindow(cfg)
    /\ applied = [values |-> cfg, last |-> "none"]
    /\ last_draw = NoDraw
    /\ nap_rect = NoNapRect
    /\ contrast = NoContrast

NextRender ==
    \/ MakeNapRect
    \/ DrawNapRect

SpecRender == InitRender /\ [][NextRender]_vars

\* Text colours of the colours of ColorChoices.
NextContrast == TextColor

SpecContrast == InitRender /\ [][NextContrast]_vars

(***************************************************************************)
(* Properties.                                                             *)
(***************************************************************************)
Data == ctx.collected_events

\* The last draw callback invoked the matcher.
Drawn == last_draw.done /\ last_draw.called

\* Switch-candidates and waking-candidates of the collector for target val.
SwitchCands(val) ==
    {t \in 1 .. Len(Data) : nap_rect_check_func_switch(ctx, entries, Data, t, val)}
WakingCands(val) ==
    {i \in 1 .. Len(Data) : nap_rect_check_func_waking(ctx, entries, Data, i, val)}

\* The entry references at the two ends of an emitted interval.
Endpoints(sh) == {Data[sh.start].entry, Data[sh.end].entry}

Shapes == last_draw.shapes
ShapeSet == {Shapes[k] : k \in DOMAIN Shapes}

\* C1: a render pass for one target emits at most min(N, M) intervals for N
\* switch-candidates and M waking-candidates, and no entry is an endpoint of
\* more than one emitted interval.
C1_AtMostOnePairing ==
    Drawn =>
        LET N == Cardinality(SwitchCands(last_draw.val))
            M == Cardinality(WakingCands(last_draw.val))
        IN  /\ Len(Shapes) <= (IF N <= M THEN N ELSE M)
            /\ \A i, j \in DOMAIN Shapes :
                   i # j => Endpoints(Shapes[i]) \cap Endpoints(Shapes[j]) = {}

\* Two switch-candidates and two waking-candidates yield two intervals.
C1_Witness ==
    /\ Drawn
    /\ Cardinality(SwitchCands(last_draw.val)) = 2
    /\ Cardinality(WakingCands(last_draw.val)) = 2
    /\ Len(Shapes) = 2

\* C2: in every emitted interval the waking entry comes strictly after the
\* switch entry in trace order.
C2_WakingAfterSwitch ==
    Drawn =>
        \A sh \in ShapeSet :
            /\ sh.start < sh.end
            /\ Data[sh.start].entry < Data[sh.end].entry

\* An interval is emitted although a waking-candidate precedes its switch.
C2_Witness ==
    /\ Drawn
    /\ \E sh \in ShapeSet : \E i \in WakingCands(last_draw.val) : i < sh.start

\* C3: the start of every emitted interval is a visible switch entry of the
\* target task, the end a visible waking entry whose auxiliary field is the target.
C3_KeyCorrectness ==
    Drawn =>
        \A sh \in ShapeSet :
            LET s == entries[Data[sh.start].entry]
                w == entries[Data[sh.end].entry]
            IN  /\ s.event_id = ctx.sswitch_event_id
                /\ s.pid = last_draw.val
                /\ w.event_id = ctx.waking_event_id
                /\ Data[sh.end].field = I64FromInt(last_draw.val)
                /\ {KS_EVENT_VIEW_FILTER_MASK, KS_GRAPH_VIEW_FILTER_MASK} \subseteq s.visible
                /\ {KS_EVENT_VIEW_FILTER_MASK, KS_GRAPH_VIEW_FILTER_MASK} \subseteq w.visible

\* An interval is emitted across a visible waking record that carries another key.
C3_Witness ==
    /\ Drawn
    /\ \E sh \in ShapeSet : \E k \in (sh.start + 1) .. (sh.end - 1) :
           /\ entries[Data[k].entry].event_id = ctx.waking_event_id
           /\ _nap_rect_check_function_general(entries[Data[k].entry])
           /\ Data[k].field # I64FromInt(last_draw.val)
           /\ ~I64Negative(Data[k].field)

\* C4: the draw callback invokes the matcher exactly when the draw action is
\* the task view, the window's total count is at most the limit and the
\* collector exists; a suppressed frame emits nothing.
C4_Gate ==
    last_draw.done =>
        /\ last_draw.called <=>
              /\ last_draw.draw_action = KSHARK_TASK_DRAW
              /\ last_draw.tot_count <= cfg._histo_entries_limit
              /\ ctx.has_container
        /\ ~last_draw.called => Shapes = <<>>
        /\ last_draw.called => Shapes = _draw_nap_rectangles(Data, ctx, entries, last_draw.val)

\* A frame above the limit is suppressed although the collector holds a valid pair.
C4_Witness ==
    /\ last_draw.done
    /\ last_draw.draw_action = KSHARK_TASK_DRAW
    /\ last_draw.tot_count > cfg._histo_entries_limit
    /\ ctx.has_container
    /\ _draw_nap_rectangles(Data, ctx, entries, last_draw.val) # <<>>
    /\ Shapes = <<>>

\* Init ran on a stream in which the switch id, or in direct mode the waking
\* id, cannot be resolved.
UnresolvedIds ==
    /\ stream.is_tep
    /\ \/ FindSwitchId(stream) = INVALID_ID
       \/ ~stream.couplebreak_on /\ FindWakingId(stream) = INVALID_ID

\* C5: when the switch id or the waking id cannot be resolved, init returns
\* failure and leaves no context and no registered handler.
C5_InitFailsOnUnresolvedIds ==
    (ret.call = "init" /\ UnresolvedIds) =>
        /\ ret.value = 0
        /\ ~ctx.exists
        /\ handlers = NoHandlers

\* The collector records that refer to entry k.
RecordsOf(k) == {i \in 1 .. Len(Data) : Data[i].entry = k}

\* The plugin is initialised in direct mode and has a collector.
DirectMode == ctx.exists /\ ctx.has_container /\ ~stream.couplebreak_on

\* Target ids of draw callbacks: task ids are never negative.
TargetIds == Pids \cup {0}

\* Trace positions of sched_waking records whose pid field could not be read.
FailedWakings ==
    {k \in 1 .. Len(trace) :
        trace[k].entry.event_id = SCHED_WAKING_ID /\ ~trace[k].rec.readable}

\* Trace positions of sched_waking records whose pid field was read.
ReadWakings ==
    {k \in 1 .. Len(trace) :
        trace[k].entry.event_id = SCHED_WAKING_ID /\ trace[k].rec.readable}

\* C6: in direct mode a waking record whose pid field cannot be read is
\* collected with auxiliary value -1, its entry is left as it was, it is a
\* waking-candidate for no target id >= 0 and ends no emitted interval.
C6_ReadFailure ==
    DirectMode =>
        \A k \in FailedWakings :
            /\ Cardinality(RecordsOf(k)) = 1
            /\ entries[k] = trace[k].entry
            /\ \A i \in RecordsOf(k) :
                   /\ Data[i].field = I64FromInt(-1)
                   /\ I64Negative(Data[i].field)
                   /\ \A val \in TargetIds :
                          ~nap_rect_check_func_waking(ctx, entries, Data, i, val)
                   /\ \A sh \in ShapeSet : sh.end # i

\* An interval for the task that issued the unreadable waking record is
\* emitted across that record.
C6_Witness ==
    /\ DirectMode
    /\ Drawn
    /\ \E k \in FailedWakings : \E i \in RecordsOf(k) : \E sh \in ShapeSet :
           /\ sh.start < i /\ i < sh.end
           /\ entries[k].pid = last_draw.val

\* C7: in direct mode a waking record whose pid field reads as v gets its
\* entry's task id set to v and the plugin-untouched bit cleared, the other
\* visibility bits kept, and exactly one record (entry, v) is collected.
C7_ReadSuccess ==
    DirectMode =>
        \A k \in ReadWakings :
            \E v \in Pids :
                /\ trace[k].rec.val = U64(v)
                /\ entries[k].pid = v
                /\ entries[k].event_id = trace[k].entry.event_id
                /\ entries[k].visible = trace[k].entry.visible \ {KS_PLUGIN_UNTOUCHED_MASK}
                /\ Cardinality(RecordsOf(k)) = 1
                /\ \A i \in RecordsOf(k) : Data[i].field = I64FromInt(v)

\* A waking record issued by another task, with a filter bit already cleared,
\* was classified.
C7_Witness ==
    /\ DirectMode
    /\ \E k \in ReadWakings :
           /\ trace[k].entry.pid # entries[k].pid
           /\ KS_GRAPH_VIEW_FILTER_MASK \notin trace[k].entry.visible
           /\ KS_PLUGIN_UNTOUCHED_MASK \in trace[k].entry.visible
           /\ RecordsOf(k) # {}

\* The host's load of a whole trace tr, from no entries.
RECURSIVE LoadAll(_, _, _, _)
LoadAll(s, c, h, tr) ==
    IF tr = <<>> THEN [entries |-> <<>>, ctx |-> c]
    ELSE LET before == LoadAll(s, c, h, SubSeq(tr, 1, Len(tr) - 1))
         IN  HostLoad(s, before.ctx, h, before.entries, tr[Len(tr)])

\* The coupled-mode record of the same waking event: the target entry, owned
\* by the woken task.  Every other record is the same in both traces.
CoupledRecord(x) ==
    IF x.entry.event_id = SCHED_WAKING_ID /\ x.rec.readable
    THEN [entry |-> Entry(COUPLEBREAK_SWT_ID,
                          CHOOSE w \in Pids : x.rec.val = U64(w),
                          x.entry.visible),
          rec |-> NoRec]
    ELSE x

\* The state after init and load of the coupled-mode trace on the same stream
\* with couplebreak on.
CoupledRun ==
    LET s == [stream EXCEPT !.couplebreak_on = TRUE]
        i == KSHARK_PLOT_PLUGIN_INITIALIZER(s, NoHandlers, TRUE, TRUE, TRUE)
    IN  LoadAll(s, i.ctx, i.handlers, [k \in DOMAIN trace |-> CoupledRecord(trace[k])])

\* The (switch entry, waking entry) pairs a task-view draw for target val emits.
PairsOf(c, es, val) ==
    LET sh == draw_nap_rectangles(c, cfg, es, val, KSHARK_TASK_DRAW, 0).shapes
    IN  {<<c.collected_events[sh[k].start].entry, c.collected_events[sh[k].end].entry>> :
            k \in DOMAIN sh}

\* C8: a direct-mode waking record whose pid field reads W and the
\* coupled-mode record whose entry is owned by W, in otherwise identical
\* traces, are collected with the same key W and lead to the same emitted
\* pairs for every target.
C8_ModeEquivalence ==
    DirectMode =>
        LET cr == CoupledRun
        IN  /\ \A W \in Pids : PairsOf(ctx, entries, W) = PairsOf(cr.ctx, cr.entries, W)
            /\ \A k \in ReadWakings : \E W \in Pids :
                   /\ trace[k].rec.val = U64(W)
                   /\ \E i \in RecordsOf(k) : Data[i].field = I64FromInt(W)
                   /\ \E j \in 1 .. Len(cr.ctx.collected_events) :
                          /\ cr.ctx.collected_events[j].entry = k
                          /\ cr.ctx.collected_events[j].field = I64FromInt(W)

\* Both modes emit an interval for the woken task.
C8_Witness ==
    /\ DirectMode
    /\ ReadWakings # {}
    /\ \E W \in Pids :
           /\ PairsOf(ctx, entries, W) # {}
           /\ PairsOf(CoupledRun.ctx, CoupledRun.entries, W) # {}

\* The trace [switch of T, waking issued by O with woken pid T, switch of T].
ScenarioTrace(T, O) ==
    <<[entry |-> Entry(SCHED_SWITCH_ID, T, Masks), rec |-> NoRec],
      [entry |-> Entry(SCHED_WAKING_ID, O, Masks), rec |-> [readable |-> TRUE, val |-> U64(T)]],
      [entry |-> Entry(SCHED_SWITCH_ID, T, Masks), rec |-> NoRec]>>

\* The last draw was a task-view draw for target T within the limit.
UngatedDrawFor(T) ==
    /\ last_draw.done
    /\ last_draw.val = T
    /\ last_draw.draw_action = KSHARK_TASK_DRAW
    /\ last_draw.tot_count <= cfg._histo_entries_limit

\* C9: after classifying [switch of T, waking of T by another task, switch of
\* T], a draw for target T emits exactly one interval, from the first switch
\* to the waking.
C9_RoundTrip ==
    \A T \in Pids : \A O \in Pids \ {T} :
        (DirectMode /\ trace = ScenarioTrace(T, O) /\ UngatedDrawFor(T)) =>
            /\ last_draw.called
            /\ Len(Shapes) = 1
            /\ Data[Shapes[1].start].entry = 1
            /\ Data[Shapes[1].end].entry = 2

\* The scenario of the specification: T = 5, the waking issued by task 7.
C9_Witness ==
    /\ DirectMode
    /\ trace = ScenarioTrace(5, 7)
    /\ UngatedDrawFor(5)
    /\ Len(Shapes) = 1

\* C10: the configuration starts as (10000, false) and always equals the
\* control values of the most recent Apply, both fields together, or the
\* defaults when there was none; Close after edits leaves it unchanged, and
\* show reloads the controls from it.
C10_ConfigFollowsApply ==
    /\ cfg._histo_entries_limit = applied.values._histo_entries_limit
    /\ cfg._use_task_coloring = applied.values._use_task_coloring
    /\ applied.last = "none" =>
           cfg = [_histo_entries_limit |-> 10000, _use_task_coloring |-> FALSE]
    /\ applied.last = "show" => ControlValues(win) = cfg /\ win.shown
    /\ applied.last \in {"apply", "close"} => ~win.shown

\* After an Apply that changed both fields, later edits of both controls were
\* discarded by Close.
C10_Witness ==
    /\ applied.last = "close"
    /\ cfg._histo_entries_limit # DEFAULT_HISTO_LIMIT
    /\ cfg._use_task_coloring # DEFAULT_USE_TASK_COLORING
    /\ win._histo_limit # cfg._histo_entries_limit
    /\ win._task_col_btn # cfg._use_task_coloring

\* A step in which the draw callback ran.
DrawStep == last_draw'.done /\ last_draw' # last_draw

\* C11: the draw callback, gated or not, leaves the collector, the context's
\* ids, the entries and the configuration unchanged; the collector grows only
\* in a classification step, by a suffix; and two successive draws with the
\* same target, draw action and count emit the same intervals.
C11_DrawFrame ==
    [][/\ DrawStep =>
              /\ ctx' = ctx
              /\ cfg' = cfg
              /\ entries' = entries
       /\ (/\ last_draw.done /\ last_draw'.done
           /\ last_draw'.val = last_draw.val
           /\ last_draw'.draw_action = last_draw.draw_action
           /\ last_draw'.tot_count = last_draw.tot_count) =>
              /\ last_draw'.called = last_draw.called
              /\ last_draw'.shapes = last_draw.shapes
       /\ Len(ctx'.collected_events) > Len(ctx.collected_events) =>
              /\ ~DrawStep
              /\ Len(trace') = Len(trace) + 1
              /\ SubSeq(ctx'.collected_events, 1, Len(ctx.collected_events))
                     = ctx.collected_events
      ]_vars

\* A draw for one task emitted an interval out of a full collector.
C11_Witness ==
    /\ Drawn
    /\ last_draw.val = 7
    /\ Len(Data) = 3
    /\ Len(Shapes) = 1

\* The plugin is initialised in coupled mode and has a collector.
CoupledMode == ctx.exists /\ ctx.has_container /\ stream.couplebreak_on

\* A raw record whose pid field reads as w.
ReadableRec(w) == [readable |-> TRUE, val |-> U64(w)]

\* C12: an entry differs from the one the host built only if it is a
\* sched_waking entry classified in direct mode with a readable pid field; a
\* switch entry is collected with -1 and a coupled-mode waking entry with its
\* own task id, both left as they were, whatever the raw record holds.
C12_EntryMutation ==
    /\ \A k \in 1 .. Len(trace) :
           entries[k] # trace[k].entry =>
               /\ trace[k].entry.event_id = SCHED_WAKING_ID
               /\ trace[k].rec.readable
               /\ ~stream.couplebreak_on
    /\ (ctx.exists /\ ctx.has_container) =>
           \A k \in 1 .. Len(trace) :
               LET x == trace[k]
               IN  /\ x.entry.event_id = ctx.sswitch_event_id =>
                          /\ entries[k] = x.entry
                          /\ Cardinality(RecordsOf(k)) = 1
                          /\ \A i \in RecordsOf(k) : Data[i].field = I64FromInt(-1)
                   /\ (x.entry.event_id = ctx.waking_event_id /\ stream.couplebreak_on) =>
                          /\ entries[k] = x.entry
                          /\ Cardinality(RecordsOf(k)) = 1
                          /\ \A i \in RecordsOf(k) : Data[i].field = I64FromInt(x.entry.pid)
                          /\ \A w \in Pids :
                                 select_events(stream, ctx, ReadableRec(w), x.entry, k).entry
                                     = x.entry

\* In coupled mode a switch entry and a waking entry with a filter bit
\* cleared were collected.
C12_Witness ==
    /\ CoupledMode
    /\ \E k, l \in 1 .. Len(trace) :
           /\ trace[k].entry.event_id = ctx.sswitch_event_id
           /\ trace[l].entry.event_id = ctx.waking_event_id
           /\ KS_GRAPH_VIEW_FILTER_MASK \notin trace[l].entry.visible
           /\ RecordsOf(k) # {} /\ RecordsOf(l) # {}

\* Trace positions whose event id is one of the two registered ids.
Collectable ==
    {k \in 1 .. Len(trace) :
        trace[k].entry.event_id \in {ctx.sswitch_event_id, ctx.waking_event_id}}

\* C13: with a context, the collector refers to exactly the entries whose
\* event id is the registered switch or waking id, once each and in trace
\* order (to none without a collector); classifying a record of another kind,
\* or any record without a context or without a collector, appends nothing.
C13_CollectorContents ==
    /\ ctx.exists =>
           /\ {Data[i].entry : i \in 1 .. Len(Data)}
                  = (IF ctx.has_container THEN Collectable ELSE {})
           /\ \A i, j \in 1 .. Len(Data) : i < j => Data[i].entry < Data[j].entry
    /\ \A x \in RecordChoices(stream) :
           LET idx == Len(entries) + 1
               none == [ctx EXCEPT !.has_container = FALSE]
           IN  /\ select_events(stream, NoCtx, x.rec, x.entry, idx).collected = <<>>
               /\ ctx.exists =>
                      select_events(stream, none, x.rec, x.entry, idx).collected = Data
               /\ x.entry.event_id \notin {ctx.sswitch_event_id, ctx.waking_event_id} =>
                      /\ select_events(stream, ctx, x.rec, x.entry, idx).collected = Data
                      /\ select_events(stream, ctx, x.rec, x.entry, idx).entry = x.entry

\* A record of another kind was loaded between two collected records.
C13_Witness ==
    /\ ctx.exists /\ ctx.has_container
    /\ Len(trace) = 3
    /\ 2 \notin Collectable
    /\ Len(Data) = 2

\* _make_nap_rect returned a NapRectangle.
Built == nap_rect.status = "built"

\* The task id of the switch entry of the last _make_nap_rect call.
SwitchPid == nap_rect.switch_entry.pid

\* C14: the outline colour is the fill colour when use_task_coloring is
\* false; otherwise it is the table's colour of the switch entry's task, or
\* full white (255, 255, 255) when the table has no such task.
C14_OutlineColour ==
    Built =>
        LET o == nap_rect.shape
            outline == o._outline_up._color
        IN  /\ o._outline_down._color = outline
            /\ ~cfg._use_task_coloring => outline = o._rect._color
            /\ cfg._use_task_coloring =>
                   IF SwitchPid \in DOMAIN nap_rect.pid_color_table
                   THEN outline = nap_rect.pid_color_table[SwitchPid]
                   ELSE outline = [r |-> 255, g |-> 255, b |-> 255]

\* Luminance of a colour in thousandths: 299 r + 587 g + 114 b.
Luminance1000(c) == 299 * c.r + 587 * c.g + 114 * c.b

\* The text colour the contrast law prescribes for fill colour c.
LawTextColor(c) ==
    IF Luminance1000(c) > 128000
    THEN [r |-> 0, g |-> 0, b |-> 0]
    ELSE [r |-> 255, g |-> 255, b |-> 255]

\* C15: the text colour of a fill colour is black exactly when
\* 0.299 r + 0.587 g + 0.114 b > 128, white otherwise; the text of a built
\* interval has the colour the law gives for its fill colour.
C15_ContrastLaw ==
    /\ contrast.done => contrast.text_color = LawTextColor(contrast.color)
    /\ \A c \in PrevStates : \A end_base \in EndPoints :
           LET sw == [event_id |-> SCHED_SWITCH_ID, pid |-> 5, visible |-> Masks,
                      info |-> Info(<<c>>)]
               o == _make_nap_rect(StartPoint, end_base, sw, sw, cfg, <<>>)
           IN  o._text._color = LawTextColor(o._rect._color)

\* A fill colour of luminance exactly 128 got white text.
C15_Witness ==
    /\ contrast.done
    /\ Luminance1000(contrast.color) = 128000
    /\ contrast.text_color = [r |-> 255, g |-> 255, b |-> 255]

\* The last _make_nap_rect call was for a pair whose anchor points differ in y.
Misaligned ==
    /\ nap_rect.status # "none"
    /\ nap_rect.start_base_point.y # nap_rect.end_base_point.y

MarkerPos == find(nap_rect.switch_entry.info, MARKER)
NoStateBeforeMarker ==
    /\ nap_rect.status # "none"
    /\ MarkerPos \in {NPOS, U64(0)}

\* C17 as stated: without a character before " ==>" the interval is built
\* with no state text and no fault is raised.
C17_SilentFallback ==
    NoStateBeforeMarker => (Built /\ nap_rect.shape._raw_text = <<>>)

\* C17 amended: without " ==>" in the info string, or with it at position 0,
\* get_switch_prev_state raises std::out_of_range and no interval is built.
C17_MarkerFault ==
    NoStateBeforeMarker =>
        /\ get_switch_prev_state(nap_rect.switch_entry).fault
        /\ nap_rect.status = "fault"
        /\ nap_rect.shape = OutOfRange

\* An info string that starts with the marker raised the fault.
C17_Witness ==
    /\ nap_rect.status = "fault"
    /\ MarkerPos = U64(0)

\* Fill colour and label of the nine sleep-state codes.
StateTable ==
    {[code |-> "D", fill |-> [r |-> 255, g |-> 0, b |-> 0],
      label |-> <<"U", "N", "I", "N", "T", "E", "R", "R", "U", "P", "T", "I", "B", "L", "E", " ", "(", "D", "I", "S", "K", ")", " ", "S", "L", "E", "E", "P">>],
     [code |-> "I", fill |-> [r |-> 255, g |-> 255, b |-> 0],
      label |-> <<"I", "D", "L", "E">>],
     [code |-> "P", fill |-> [r |-> 255, g |-> 165, b |-> 0],
      label |-> <<"P", "A", "R", "K", "E", "D">>],
     [code |-> "R", fill |-> [r |-> 0, g |-> 255, b |-> 0],
      label |-> <<"R", "U", "N", "N", "I", "N", "G">>],
     [code |-> "S", fill |-> [r |-> 0, g |-> 0, b |-> 255],
      label |-> <<"S", "L", "E", "E", "P", "I", "N", "G">>],
     [code |-> "T", fill |-> [r |-> 0, g |-> 255, b |-> 255],
      label |-> <<"S", "T", "O", "P", "P", "E", "D">>],
     [code |-> "t", fill |-> [r |-> 139, g |-> 69, b |-> 19],
      label |-> <<"T", "R", "A", "C", "I", "N", "G", " ", "S", "T", "O", "P">>],
     [code |-> "X", fill |-> [r |-> 255, g |-> 0, b |-> 255],
      label |-> <<"D", "E", "A", "D">>],
     [code |-> "Z", fill |-> [r |-> 128, g |-> 0, b |-> 128],
      label |-> <<"Z", "O", "M", "B", "I", "E">>]}

\* The character before the marker in the info string of the last call.
StateCode ==
    nap_rect.switch_entry.info[MarkerPos[3] * LimbBase + MarkerPos[4]]

\* C18: for each of the nine codes the interval is built with the code's fixed
\* fill colour and upper-cased label; for any other code building faults and
\* no interval is produced.
C18_StateCodeTables ==
    (nap_rect.status # "none" /\ ~NoStateBeforeMarker) =>
        IF \E row \in StateTable : row.code = StateCode
        THEN /\ Built
             /\ \A row \in StateTable :
                    row.code = StateCode =>
                        /\ nap_rect.shape._rect._color = row.fill
                        /\ nap_rect.shape._raw_text = row.label
                        /\ nap_rect.shape._text.text = row.label
        ELSE /\ nap_rect.status = "fault"
             /\ nap_rect.shape = OutOfRange

\* The state "R+" has no fill colour: its code "+" raised the fault.
C18_Witness ==
    /\ nap_rect.status = "fault"
    /\ ~NoStateBeforeMarker
    /\ StateCode = "+"

\* C19: every collected waking record has the key that belongs to its kind:
\* a couplebreak target entry its own task id, a sched_waking entry the value
\* of its pid field or -1, and so never the id of the task that issued it.
C19_WakingKeyAgreesWithInit ==
    (ctx.exists /\ ctx.has_container) =>
        \A i \in 1 .. Len(Data) :
            LET x == trace[Data[i].entry]
            IN  /\ x.entry.event_id = COUPLEBREAK_SWT_ID =>
                       Data[i].field = I64FromInt(x.entry.pid)
                /\ x.entry.event_id = SCHED_WAKING_ID =>
                       /\ Data[i].field = (IF x.rec.readable THEN x.rec.val
                                           ELSE I64FromInt(-1))
                       /\ Data[i].field # I64FromInt(x.entry.pid)

\* C20: after a successful direct-mode extraction the collected field equals
\* the entry's new task id and is not negative, so the record of a visible
\* entry is a waking-candidate for target T exactly when the entry's task id
\* is T.
C20_FieldEqualsTaskId ==
    DirectMode =>
        \A k \in ReadWakings : \A i \in RecordsOf(k) :
            /\ Data[i].field = I64FromInt(entries[k].pid)
            /\ ~I64Negative(Data[i].field)
            /\ _nap_rect_check_function_general(entries[k]) =>
                   \A T \in TargetIds :
                       nap_rect_check_func_waking(ctx, entries, Data, i, T)
                           <=> entries[k].pid = T

\* C21: a failed init leaves no context, no collector and no handler; a
\* successful init leaves a context with a collector, the two classification
\* handlers and the draw handler; whenever a handler is registered the
\* context exists.
C21_InitOutcome ==
    /\ (ret.call = "init" /\ ret.value = 0) =>
           /\ ~ctx.exists
           /\ ~ctx.has_container
           /\ handlers = NoHandlers
    /\ (ret.call = "init" /\ ret.value = 1) =>
           /\ ctx.exists
           /\ ctx.has_container
           /\ handlers.draw
           /\ {ctx.sswitch_event_id, ctx.waking_event_id} \subseteq handlers.events
    /\ (handlers.draw \/ handlers.events # {}) => ctx.exists

\* Handlers are registered exactly when the context exists; after a
\* successful deinit nothing is left.
DeinitState ==
    /\ handlers.draw <=> ctx.exists
    /\ handlers.events # {} <=> ctx.exists
    /\ ctx.exists => handlers.events = {ctx.sswitch_event_id, ctx.waking_event_id}
    /\ (ret.call = "deinit" /\ ret.value = 1) =>
           /\ ~ctx.exists /\ ~ctx.has_container
           /\ ctx.collected_events = <<>>
           /\ handlers = NoHandlers
    /\ ret.call = "deinit" => ~ctx.exists

\* C22: deinit with a context unregisters the three handlers, frees collector
\* and context and returns 1; deinit without a context returns 0 and leaves
\* the handlers as they were; handlers are registered exactly when the
\* context exists; an init that follows starts with an empty collector.
C22_DeinitOutcome ==
    /\ DeinitState
    /\ [][/\ DeinitState'
          /\ (ret'.call = "deinit" /\ ret' # ret) =>
                 IF ctx.exists
                 THEN ret'.value = 1 /\ ~ctx'.exists /\ handlers' = NoHandlers
                 ELSE ret'.value = 0 /\ handlers' = handlers /\ ctx' = ctx
          /\ (~ctx.exists /\ ret'.call = "init" /\ ctx'.exists) =>
                 /\ ret'.value = 1
                 /\ ctx'.collected_events = <<>>
         ]_vars

\* The plugin was unloaded after a load that had collected records.
C22_Witness ==
    /\ ret.call = "deinit" /\ ret.value = 1
    /\ ~ctx.exists
    /\ Len(trace) = 3
    /\ \E k \in 1 .. 3 : trace[k].entry.event_id = SCHED_SWITCH_ID

====
